---------------------------- MODULE Spec2Model ----------------------------
(***************************************************************************)
(* The session/message synchroniser of the chat page (the Hero component). *)
(*                                                                         *)
(* Two revisions of the component are in the source tree and both are      *)
(* modelled; the variable rev says which one a behaviour runs:             *)
(*   "hero"  src/client/src/sections/Hero.tsx  (messages carry no id)      *)
(*   "p002"  src/unnamed/part_002              (messages carry the id of   *)
(*           their durable row, updateMessageInDatabase exists)            *)
(*                                                                         *)
(* A React handler is a closure over the state of the render that created  *)
(* it: currentSessionId, messages, user and isLoading read inside a        *)
(* handler are the values of the moment the handler was invoked, also      *)
(* after an await.  setX(...) writes the live state, and the functional    *)
(* form setMessages(prev => ...) reads the live transcript.  Every handler *)
(* invocation is a record of ops that holds the captured values; one       *)
(* action of the model is one resumption of a handler: the answer of the   *)
(* awaited call arrives, its effect on the store is applied and the        *)
(* handler runs to its next await or to its end.                           *)
(*                                                                         *)
(* Message objects live in heap (index = object identity) because p002     *)
(* writes ids into objects that a captured messages array still shares.    *)
(***************************************************************************)
EXTENDS Naturals, Sequences, FiniteSets, TLC

\* ---------------------------------------------------------------- bounds
MaxCalls == 2
MaxSelects == 2
MaxInFlight == 2
MaxFaults == 1
MaxHistory == 3
MaxToggles == 3
MaxPicks == 2
MaxSideToggles == 2
MaxDeletes == 2
MaxAttaches == 1
MaxSideSelects == 1

\* ------------------------------------------------------------- constants
PH == "Processing your request..."
ErrText == "Sorry, I encountered an error processing your message. Please try again."
FileErrText == "Sorry, I encountered an error processing your file. Please try again."
FileOkText == "File processed successfully."
NewChat == "New Chat"
NoActor == 0
Actor == 1
NoSid == 0
NoId == 0

\* what the user can type, the topic buttons, the inference reply
Inputs == {"hi", "  "}
TopicPrompt == "Discuss the latest innovations in renewable energy for transportation."
TopicTitle == "Transportation using Renewable Energy"
Reply == "reply"

\* file names, as character sequences; 0 stands for "no file chosen"
Files == << <<"a", ".", "c", "s", "v">>, <<"a", ".", "t", "x", "t">> >>
NoFile == 0
CsvFile == 1
TxtFile == 2
DotCsv == <<".", "c", "s", "v">>

VARIABLES
    rev,                \* which revision of the component runs
    hasSession,         \* the auth service holds a login session for the browser
    authPc,             \* checkAuth: "getUser" while supabase.auth.getUser() is awaited
    tokPc,              \* fetchSession: "getSession" while getSession() is awaited
    route,              \* "chat", or "login" after router.push('/login')
    user,               \* useState user
    accessToken,        \* useState accessToken (TRUE: a token is held)
    currentSessionId,   \* useState currentSessionId
    messages,           \* useState messages: sequence of object identities
    heap,               \* the message objects: [type, text, id]
    isLoading,          \* useState isLoading
    toast,              \* title of the last toast shown
    sessions,           \* table chat_sessions: id -> title
    rows,               \* table messages, in created_at order: [id, sid, type, content]
    nextSid,            \* next chat_sessions id the store hands out
    nextId,             \* next messages id the store hands out
    ops,                \* handler invocations suspended at an await
    last,               \* the invocation that returned last (NoOp once another starts)
    calls,              \* number of handler invocations so far, handleSessionSelect apart
    selects,            \* number of handleSessionSelect invocations so far
    overlapped,         \* some handler was invoked while another was suspended
    pure,               \* only sendMessage appended to the transcript since it was emptied
    submits,            \* sendMessage calls that passed the submit step since then
    faults              \* awaited calls that have failed so far

\* the analytics dashboard (Dashboard.tsx and the revisions in part_005)
VARIABLES
    drev,               \* which revision of the dashboard runs
    isOpen,             \* useState isOpen
    latestData,         \* useState latestData
    historyData,        \* useState historyData
    loading,            \* useState loading
    error,              \* useState error ("" for null)
    selectedShipmentId, \* useState selectedShipmentId ("" for null)
    availableShipments, \* useState availableShipments
    chartData,          \* processChartData(...) of the last render
    effectDue,          \* the effect on [isOpen] is scheduled and has not run yet
    fetches,            \* fetchData invocations suspended at an await
    fetched,            \* number of fetchData invocations so far
    latestCalls,        \* number of getLatestAnalytics calls so far
    historyCalls,       \* number of getAnalyticsHistory calls so far
    succeeded,          \* number of fetchData invocations that reached the end of the try block
    picks,              \* number of onSelect events so far
    toggles             \* number of times the sheet was opened or closed

\* the chat history sheet (Sidebar.tsx) and the attachment stores
VARIABLES
    sidebarOpen,        \* useState isOpen of Sidebar
    sidebarLoading,     \* useState isLoading of Sidebar
    sidebarSessions,    \* useState sessions of Sidebar: the list last fetched
    sideSeen,           \* [isOpen, currentSessionId] as the effect last saw them
    sessionFiles,       \* rows of the table session_files
    chatFiles,          \* objects of the bucket 'chat-files', by path
    sideOps,            \* fetchSessions / handleDeleteSession invocations at an await
    sideCalls,          \* number of those invocations so far
    deletes,            \* number of handleDeleteSession invocations so far
    sideToggles,        \* number of times the sheet was opened or closed
    attaches            \* number of attachments stored so far

ui == <<route, user, accessToken, currentSessionId, messages, heap, isLoading, toast>>
db == <<sessions, rows, nextSid, nextId>>
boot == <<rev, hasSession, authPc, tokPc>>
hist == <<last, calls, selects, overlapped, pure, submits>>
dash == <<drev, isOpen, latestData, historyData, loading, error, selectedShipmentId,
          availableShipments, chartData, effectDue, fetches, fetched, latestCalls,
          historyCalls, succeeded, picks, toggles>>
side == <<sidebarOpen, sidebarLoading, sidebarSessions, sideSeen, sessionFiles, chatFiles,
          sideOps, sideCalls, deletes, sideToggles, attaches>>
env == <<faults, dash, side>>
vars == <<boot, ui, db, ops, hist, env>>

\* ------------------------------------------------------ pure helpers
\* String.prototype.endsWith on character sequences
EndsWith(s, suffix) ==
    /\ Len(suffix) <= Len(s)
    /\ SubSeq(s, Len(s) - Len(suffix) + 1, Len(s)) = suffix

\* mutation: the extension test accepts every name
IsCsv_Any(f) == TRUE
IsCsv(f) == EndsWith(Files[f], DotCsv)

\* the transcript as the user sees it
View(hp, ms) == [i \in 1..Len(ms) |-> [type |-> hp[ms[i]].type, text |-> hp[ms[i]].text]]

IsPH(m) == m.type = "agent" /\ m.text = PH

\* rows of one session, in created_at order
RECURSIVE RowsOf(_, _)
RowsOf(rs, sid) ==
    IF rs = <<>> THEN <<>>
    ELSE IF Head(rs).sid = sid THEN <<Head(rs)>> \o RowsOf(Tail(rs), sid)
         ELSE RowsOf(Tail(rs), sid)

\* delete().eq('session_id', sid)
RECURSIVE DeleteRows(_, _)
DeleteRows(rs, sid) ==
    IF rs = <<>> THEN <<>>
    ELSE IF Head(rs).sid = sid THEN DeleteRows(Tail(rs), sid)
         ELSE <<Head(rs)>> \o DeleteRows(Tail(rs), sid)

\* update({content}).eq('id', id)
UpdateRow(rs, id, text) ==
    [i \in 1..Len(rs) |-> IF rs[i].id = id THEN [rs[i] EXCEPT !.content = text] ELSE rs[i]]

\* insert(newMessages.map(...)): rows for the given <<type, text>> pairs
NewRows(sid, ms, first) ==
    [i \in 1..Len(ms) |-> [id |-> first + i - 1, sid |-> sid, type |-> ms[i][1], content |-> ms[i][2]]]

\* messages.find(msg => msg.type === 'agent' && msg.text === text): the object, 0 if none
Find(hp, ms, text) ==
    LET hit == {i \in 1..Len(ms) : hp[ms[i]].type = "agent" /\ hp[ms[i]].text = text}
    IN  IF hit = {} THEN 0 ELSE ms[CHOOSE i \in hit : \A j \in hit : i <= j]

\* title.slice(0, 50)
TextLen(t) == IF t = TopicPrompt THEN 70 ELSE IF t = TopicTitle THEN 37 ELSE 2
Slice50(t) == IF TextLen(t) <= 50 THEN t ELSE "Discuss the latest innovations in renewable energy"

\* inputMessage.trim() is empty
Blank(t) == t = "  "

\* setMessages(prev => [...prev, m]): the heap and the transcript after it
AppendHeap(hp, objs) == hp \o objs
AppendMsgs(hp, ms, objs) == ms \o [i \in 1..Len(objs) |-> Len(hp) + i]

Obj(type, text) == [type |-> type, text |-> text, id |-> NoId]

\* the placeholder positions of a transcript and their rank among them
PHAt(hp, ms) == {i \in 1..Len(ms) : IsPH(hp[ms[i]])}
PHRank(hp, ms, i) == Cardinality({j \in PHAt(hp, ms) : j <= i})

\* setMessages(prev => prev.map(msg => placeholder ? replacement : msg)).
\* Hero.tsx puts the one object finalAgentMessage at every placeholder;
\* part_002 builds {...msg, text} for each placeholder, keeping its id.
ReplacedHeap(hp, ms, text) ==
    IF rev = "hero"
    THEN hp \o << Obj("agent", text) >>
    ELSE hp \o [r \in 1..Cardinality(PHAt(hp, ms)) |->
                  LET i == CHOOSE j \in PHAt(hp, ms) : PHRank(hp, ms, j) = r
                  IN  [hp[ms[i]] EXCEPT !.text = text]]
ReplacedMsgs(hp, ms, text) ==
    [i \in 1..Len(ms) |->
       IF i \in PHAt(hp, ms)
       THEN IF rev = "hero" THEN Len(hp) + 1 ELSE Len(hp) + PHRank(hp, ms, i)
       ELSE ms[i]]

\* the catch block of handleSendMessage on the transcript:
\* Hero.tsx:351-355 appends the error message, part_002:383-393 writes the
\* error text over every placeholder
CaughtHeap(hp, ms, text) ==
    IF rev = "hero" THEN AppendHeap(hp, << Obj("agent", text) >>) ELSE ReplacedHeap(hp, ms, text)
\* mutation: the catch block leaves the transcript alone
CaughtMsgs_Kept(hp, ms, text) == ms
CaughtMsgs(hp, ms, text) ==
    IF rev = "hero" THEN AppendMsgs(hp, ms, << Obj("agent", text) >>) ELSE ReplacedMsgs(hp, ms, text)

\* part_002:245-257: the returned ids go to the messages that have no id,
\* in transcript order, whichever messages these are
IdLess(hp, ms) == {i \in 1..Len(ms) : hp[ms[i]].id = NoId}
IdLessRank(hp, ms, i) == Cardinality({j \in IdLess(hp, ms) : j <= i})
BoundHeap(hp, ms, ids) ==
    IF rev = "hero" THEN hp
    ELSE [x \in 1..Len(hp) |->
            LET at == {i \in IdLess(hp, ms) : ms[i] = x /\ IdLessRank(hp, ms, i) <= Len(ids)}
            IN  IF at = {} THEN hp[x]
                ELSE [hp[x] EXCEPT !.id = ids[IdLessRank(hp, ms, CHOOSE i \in at : TRUE)]]]

\* part_002:371-380 and 395-404: the id of the row to update in place,
\* looked up in the messages array the handler captured; NoId: insert
UpdateTarget(hp, captured, text) ==
    IF rev = "hero" THEN NoId
    ELSE LET x == Find(hp, captured, text)
         IN  IF x = 0 THEN NoId ELSE hp[x].id

\* ---------------------------------------------------- handler records
NoOp == [k |-> 0, op |-> "none", pc |-> "none", sid |-> NoSid, usr |-> NoActor,
         msgs |-> <<>>, loading |-> FALSE, text |-> "", tgt |-> 0, upd |-> NoId,
         wr |-> [text |-> "", sid |-> NoSid], ev |-> {}, ins |-> {}]

\* the closure of a handler invoked now
NewOp(op, pc, text, tgt) ==
    [k |-> calls + selects + 1, op |-> op, pc |-> pc, sid |-> currentSessionId, usr |-> user,
     msgs |-> messages, loading |-> isLoading, text |-> text, tgt |-> tgt, upd |-> NoId,
     wr |-> [text |-> "", sid |-> NoSid], ev |-> {}, ins |-> {}]

\* the page is shown (Hero.tsx:482) and checkAuth has answered
Shown == route = "chat" /\ user # NoActor /\ authPc = "done"

\* the user acts on the page.  fetchSession reads the local login session
\* and has answered by then; only the file input, whose handler reads
\* accessToken, is also modelled racing with it.
Interactive == Shown /\ tokPc = "done"

CanCall == calls < MaxCalls /\ Cardinality(ops) < MaxInFlight
CanSelect == selects < MaxSelects /\ Cardinality(ops) < MaxInFlight

\* a handler starts and suspends at its first await
Suspend(o) ==
    /\ ops' = ops \cup {o}
    /\ overlapped' = (overlapped \/ ops # {})
    /\ last' = NoOp
    /\ calls' = IF o.op = "select" THEN calls ELSE calls + 1
    /\ selects' = IF o.op = "select" THEN selects + 1 ELSE selects
    /\ UNCHANGED env

\* a handler returns without ever suspending
ReturnAtOnce(o) ==
    /\ ops' = ops
    /\ overlapped' = (overlapped \/ ops # {})
    /\ last' = [o EXCEPT !.pc = "done"]
    /\ calls' = calls + 1
    /\ UNCHANGED <<selects, env>>

\* a suspended handler moves to its next await
Resume(o, n) == /\ ops' = (ops \ {o}) \cup {n}
                /\ UNCHANGED <<last, calls, selects, overlapped>>

\* a suspended handler returns
Finish(o, n) == /\ ops' = ops \ {o}
                /\ last' = [n EXCEPT !.pc = "done"]
                /\ UNCHANGED <<calls, selects, overlapped>>

\* the awaited call of a resumption succeeded, or failed (network error,
\* store error, non-2xx answer)
Answer(ok) == /\ IF ok THEN faults' = faults
                 ELSE faults < MaxFaults /\ faults' = faults + 1
              /\ UNCHANGED <<dash, side>>

\* ------------------------------------------- dashboard: data and charts
\* Numbers are held in thousandths.  A key is the sequence of its words
\* (the parts between underscores); a label is the sequence of its words
\* (the parts between spaces).
NoShipment == ""
NoError == ""
FailedToLoad == "Failed to load analytics data"
Num(k, v) == [key |-> k, num |-> TRUE, val |-> v]
Str(k) == [key |-> k, num |-> FALSE, val |-> 0]
Distance == <<"distance">>
CarbonEmissions == <<"carbon", "emissions">>

\* the shipment results the analytics service may hand out
R1 == [shipment_id |-> "S1", score |-> 7000, predicted |-> 6504,
       metrics |-> << Num(<<"a">>, 10000), Num(<<"b">>, 20004), Num(Distance, 500000) >>,
       fi |-> << Num(Distance, 250), Num(<<"a">>, 755) >>]
R1z == [shipment_id |-> "S1", score |-> 0, predicted |-> 1000,
        metrics |-> << Num(CarbonEmissions, 1234), Str(<<"transport", "mode">>),
                       Num(<<"route", "score">>, 81236) >>,
        fi |-> << Num(<<"b">>, 1000) >>]
R2 == [shipment_id |-> "S2", score |-> 5000, predicted |-> 5000,
       metrics |-> << Num(<<"b">>, 3000) >>,
       fi |-> <<>>]

\* a snapshot: results is a list, one result that is not in a list, or
\* absent; NullSnap is the null latestData
Snap(shape, ts, rs) == [shape |-> shape, ts |-> ts, results |-> rs]
NullSnap == Snap("null", <<0, 0>>, <<>>)
Snapshots == { Snap("list", <<1, 9>>, <<R1, R2>>), Snap("list", <<2, 9>>, <<R2>>),
               Snap("list", <<3, 14>>, <<R1z, R2>>), Snap("single", <<4, 9>>, <<R1>>),
               Snap("absent", <<5, 9>>, <<>>), Snap("list", <<6, 9>>, <<>>) }
ShipmentIds == {"S1", "S2", "S3"}

\* Number(x.toFixed(2)): the nearest hundredth, in hundredths
Round2(v) == (v + 5) \div 10

\* word.charAt(0).toUpperCase() + word.slice(1)
Cap(w) == CASE w = "a" -> "A" [] w = "b" -> "B" [] w = "distance" -> "Distance"
            [] w = "carbon" -> "Carbon" [] w = "emissions" -> "Emissions"
            [] w = "transport" -> "Transport" [] w = "mode" -> "Mode"
            [] w = "route" -> "Route" [] w = "score" -> "Score"
\* key.split('_').map(...).join(' ')
TitleCase(k) == [i \in 1..Len(k) |-> Cap(k[i])]

\* new Date(entry.timestamp).toLocaleDateString(): the day, without the hour
DateString(ts) == ts[1]

\* results.find(r => r.shipment_id === shipmentId): its index, 0 when none
FindShipment(rs, id) ==
    IF \E i \in 1..Len(rs) : rs[i].shipment_id = id
    THEN CHOOSE i \in 1..Len(rs) : /\ rs[i].shipment_id = id
                                   /\ \A j \in 1..(i - 1) : rs[j].shipment_id # id
    ELSE 0

\* the entries the filter of pieData keeps
IsPieEntry(e) == e.num /\ e.key \notin {Distance, CarbonEmissions}
\* pieData: built from metrics, and in the third revision of part_005 from
\* feature_importances with the values times 100
PieData(r) ==
    LET src == IF drev = "c005" THEN r.fi ELSE r.metrics
        kept == SelectSeq(src, IsPieEntry)
    IN  [i \in 1..Len(kept) |->
           [name |-> TitleCase(kept[i].key),
            value |-> IF drev = "c005" THEN Round2(kept[i].val * 100) ELSE Round2(kept[i].val)]]

RadarData(r) ==
    LET src == IF drev = "c005" THEN r.metrics ELSE r.fi
    IN  [i \in 1..Len(src) |->
           [subject |-> TitleCase(src[i].key),
            importance |-> IF drev = "c005" THEN Round2(src[i].val) ELSE Round2(src[i].val * 100)]]

\* one entry of the history mapped to a point; the null score is held as 0,
\* which is what 'score || null' makes of a score of 0 as well
HistoryThrows(e) == IF drev = "a005" THEN e.shape = "single" ELSE e.shape = "absent"
IsPoint(pt) == pt.score # 0
HistoryPoint(e, id) ==
    LET at == FindShipment(e.results, id)
    IN  [timestamp |-> DateString(e.ts),
         \* result?.sustainability_analysis.overall_sustainability_score || null
         score |-> IF at = 0 THEN 0 ELSE e.results[at].score]
HistoryChartData(h, id) ==
    SelectSeq([i \in 1..Len(h) |-> HistoryPoint(h[i], id)], IsPoint)

NoChart(kind) == [kind |-> kind, name |-> "", pieData |-> <<>>, radarData |-> <<>>,
                  scores |-> <<>>, historyData |-> <<>>]

\* the guard of processChartData: Dashboard.tsx:175, part_005:175
NoInput(latest, id) ==
    IF drev = "a005"
    THEN latest.shape \in {"null", "absent", "single"} \/ latest.results = <<>> \/ id = NoShipment
    ELSE latest.shape = "null" \/ id = NoShipment

\* processChartData.  kind "throw": a TypeError leaves the function
processChartData(latest, history, id) ==
    IF NoInput(latest, id) THEN NoChart("null")
    ELSE IF latest.shape = "absent" THEN NoChart("throw")
    ELSE LET at == FindShipment(latest.results, id)
         IN  IF at = 0 THEN NoChart("null")
             ELSE IF drev # "c005" /\ \E i \in 1..Len(history) : HistoryThrows(history[i])
                  THEN NoChart("throw")
             ELSE [kind |-> "chart", name |-> id,
                   pieData |-> PieData(latest.results[at]),
                   radarData |-> RadarData(latest.results[at]),
                   scores |-> << [actual |-> Round2(latest.results[at].score),
                                  predicted |-> Round2(latest.results[at].predicted)] >>,
                   historyData |-> IF drev = "c005" THEN <<>> ELSE HistoryChartData(history, id)]

\* the dashboard before it is ever opened
DashIdle ==
    /\ isOpen = FALSE /\ latestData = NullSnap /\ historyData = <<>>
    /\ loading = FALSE /\ error = NoError
    /\ selectedShipmentId = NoShipment /\ availableShipments = <<>>
    /\ chartData = NoChart("null") /\ effectDue = FALSE /\ fetches = {}
    /\ fetched = 0 /\ latestCalls = 0 /\ historyCalls = 0 /\ succeeded = 0
    /\ picks = 0 /\ toggles = 0

\* Sidebar.tsx:37-40: the sheet is closed and has fetched nothing
SideIdle ==
    /\ sidebarOpen = FALSE /\ sidebarLoading = FALSE /\ sidebarSessions = {}
    /\ sideSeen = <<FALSE, NoSid>>
    /\ sideOps = {} /\ sideCalls = 0 /\ deletes = 0 /\ sideToggles = 0 /\ attaches = 0

\* ----------------------------------------------------------------- Init
\* The component is mounted: nothing is loaded, checkAuth and fetchSession
\* are awaited.  The store holds what earlier visits left: session 1 with
\* the three rows of one turn whose inference call failed, and session 2,
\* created and never used.
Init ==
    /\ rev \in {"hero", "p002"}
    /\ hasSession \in BOOLEAN
    /\ authPc = "getUser"
    /\ tokPc = "getSession"
    /\ route = "chat"
    /\ user = NoActor
    /\ accessToken = FALSE
    /\ currentSessionId = NoSid
    /\ messages = <<>>
    /\ heap = <<>>
    /\ isLoading = FALSE
    /\ toast = ""
    /\ sessions = (1 :> "hi") @@ (2 :> NewChat)
    /\ rows = << [id |-> 1, sid |-> 1, type |-> "user", content |-> "hi"],
                 [id |-> 2, sid |-> 1, type |-> "agent", content |-> PH],
                 [id |-> 3, sid |-> 1, type |-> "agent", content |-> ErrText] >>
    /\ nextSid = 3
    /\ nextId = 4
    /\ ops = {}
    /\ last = NoOp
    /\ calls = 0
    /\ selects = 0
    /\ overlapped = FALSE
    /\ pure = TRUE
    /\ submits = 0
    /\ faults = 0
    /\ drev = "dash"
    /\ DashIdle
    /\ SideIdle
    /\ sessionFiles = {} /\ chatFiles = {}

\* ------------------------------------------------- mount: identity
\* fetchSession (Hero.tsx:91-98): the access token of the login session, if any
FetchSessionDone ==
    /\ route = "chat" /\ tokPc = "getSession"
    /\ tokPc' = "done"
    /\ accessToken' = (accessToken \/ hasSession)
    /\ UNCHANGED <<rev, hasSession, authPc, route, user, currentSessionId, messages, heap,
                   isLoading, toast, db, ops, hist, env>>

\* the page is left for /login: the component and its state are gone
Leave ==
    /\ route' = "login"
    /\ user' = NoActor /\ accessToken' = FALSE /\ currentSessionId' = NoSid
    /\ messages' = <<>> /\ heap' = <<>> /\ isLoading' = FALSE /\ toast' = ""
    /\ ops' = {} /\ last' = NoOp /\ pure' = TRUE /\ submits' = 0
    /\ authPc' = "done" /\ tokPc' = "done"
    /\ UNCHANGED <<rev, hasSession, db, calls, selects, overlapped, env>>

\* checkAuth (Hero.tsx:115-128).  createNewSession() is the function of the
\* first render, whose user is null: it returns at "if (!user) return".
CheckAuthDone ==
    /\ route = "chat" /\ authPc = "getUser"
    /\ \E r \in {"user", "none", "error"} :
         IF r = "user"
         THEN /\ hasSession
              /\ user' = Actor
              /\ authPc' = "done"
              /\ UNCHANGED <<rev, hasSession, tokPc, route, accessToken, currentSessionId,
                             messages, heap, isLoading, toast, db, ops, hist, env>>
         ELSE Leave

\* onAuthStateChange (Hero.tsx:100-107 and 132-139), event SIGNED_IN with a
\* session: both subscriptions run; createNewSession() is again the stale one.
SignedIn ==
    /\ route = "chat" /\ hasSession
    /\ user = NoActor \/ ~accessToken
    /\ user' = Actor
    /\ accessToken' = TRUE
    /\ UNCHANGED <<boot, route, currentSessionId, messages, heap, isLoading, toast,
                   db, ops, hist, env>>

\* onAuthStateChange, event SIGNED_OUT (Hero.tsx:133-134)
SignedOut ==
    /\ route = "chat" /\ user # NoActor
    /\ Leave

\* mutation: a failed insert leaves the page without a current session
CreatedSid_Reset(ok) == IF ok THEN nextSid ELSE NoSid

\* ------------------------------------------------ createNewSession
\* the try/catch/finally of createNewSession (Hero.tsx:149-177) once the
\* insert into chat_sessions has answered; the caller continues from it
CreatedSid(ok) == IF ok THEN nextSid ELSE currentSessionId
CreatedMessages(ok) == IF ok THEN <<>> ELSE messages
CreateStore(ok) ==
    /\ sessions' = IF ok THEN sessions @@ (nextSid :> NewChat) ELSE sessions
    /\ nextSid' = IF ok THEN nextSid + 1 ELSE nextSid
CreateHist(ok) ==
    /\ pure' = (ok \/ pure)
    /\ submits' = IF ok THEN 0 ELSE submits

\* ------------------------------------------------- handleSessionSelect
\* Hero.tsx:190-199: up to the awaited select on messages
SelectStart(sid) ==
    /\ Interactive /\ CanSelect
    /\ sid \in DOMAIN sessions
    /\ isLoading' = TRUE
    /\ Suspend([NewOp("select", "fetch", "", sid) EXCEPT
                   !.ev = IF ops = {} /\ last.op = "select" /\ last.tgt = sid /\ "ok" \in last.ev
                          THEN {"again"} ELSE {}])
    /\ UNCHANGED <<boot, route, user, accessToken, currentSessionId, messages, heap, toast,
                   db, pure, submits>>

\* the message objects built from the fetched rows (p002 keeps the row id)
Loaded(rs) == [i \in 1..Len(rs) |->
                 [type |-> rs[i].type, text |-> rs[i].content,
                  id |-> IF rev = "p002" THEN rs[i].id ELSE NoId]]

\* mutation: the loaded rows are appended to the transcript
SelectedMessages_Appended(hp, ms, loaded) == ms \o [i \in 1..Len(loaded) |-> Len(hp) + i]
\* the transcript after setMessages(messages.map(...)) of handleSessionSelect
SelectedMessages(hp, ms, loaded) == [i \in 1..Len(loaded) |-> Len(hp) + i]

\* mutation: the session id is set before the fetch is known to have succeeded
SelectedSid_Early(o, ok) == o.tgt
\* the current session id after handleSessionSelect: setCurrentSessionId runs
\* only below the throw on messagesError
SelectedSid(o, ok) == IF ok THEN o.tgt ELSE currentSessionId

\* Hero.tsx:201-214: the rows have arrived, or the fetch failed
SelectDone(o, ok) ==
    /\ o \in ops /\ o.op = "select" /\ o.pc = "fetch"
    /\ Answer(ok)
    /\ currentSessionId' = SelectedSid(o, ok)
    /\ LET loaded == Loaded(RowsOf(rows, o.tgt))
       IN  IF ok
           THEN /\ heap' = heap \o loaded
                /\ messages' = SelectedMessages(heap, messages, loaded)
                /\ pure' = FALSE
                /\ submits' = 0
           ELSE UNCHANGED <<heap, messages, pure, submits>>
    /\ isLoading' = FALSE
    /\ Finish(o, [o EXCEPT !.ev = @ \cup (IF ok THEN {"ok"} ELSE {"failed"})])
    /\ UNCHANGED <<boot, route, user, accessToken, toast, db>>

\* ---------------------------------------------------- handleClearChat
\* the transcript after the setMessages([]) of handleClearChat
ClearedMessages(ms) == <<>>

\* Hero.tsx:457-466: the transcript is emptied, then the delete is awaited
ClearStart ==
    /\ Interactive /\ CanCall /\ ~isLoading
    /\ messages' = ClearedMessages(messages)
    /\ pure' = TRUE /\ submits' = 0
    /\ IF currentSessionId # NoSid
       THEN /\ isLoading' = TRUE
            /\ Suspend(NewOp("clear", "delete", "", 0))
       ELSE /\ isLoading' = FALSE
            /\ ReturnAtOnce(NewOp("clear", "done", "", 0))
    /\ UNCHANGED <<boot, route, user, accessToken, currentSessionId, heap, toast, db>>

\* mutation: the delete is not issued
ClearedRows_Kept(rs, sid) == rs
\* the rows left by delete().eq('session_id', sid) of handleClearChat
ClearedRows(rs, sid) == DeleteRows(rs, sid)

\* Hero.tsx:468-477: the delete answered; on success createNewSession runs
\* up to its insert (it returns at once when the captured user is null)
ClearDeleted(o, ok) ==
    /\ o \in ops /\ o.op = "clear" /\ o.pc = "delete"
    /\ Answer(ok)
    /\ rows' = IF ok THEN ClearedRows(rows, o.sid) ELSE rows
    /\ IF ok /\ o.usr # NoActor
       THEN /\ isLoading' = TRUE
            /\ Resume(o, [o EXCEPT !.pc = "create", !.ev = {"deleted"}])
       ELSE /\ isLoading' = FALSE
            /\ Finish(o, [o EXCEPT !.ev = IF ok THEN {"deleted"} ELSE {"deleteFailed"}])
    /\ UNCHANGED <<boot, route, user, accessToken, currentSessionId, messages, heap, toast,
                   sessions, nextSid, nextId, pure, submits>>

\* Hero.tsx:469-477: createNewSession answered inside handleClearChat
ClearCreated(o, ok) ==
    /\ o \in ops /\ o.op = "clear" /\ o.pc = "create"
    /\ Answer(ok)
    /\ currentSessionId' = CreatedSid(ok)
    /\ messages' = CreatedMessages(ok)
    /\ CreateStore(ok) /\ CreateHist(ok)
    /\ isLoading' = FALSE
    /\ Finish(o, [o EXCEPT !.ev = @ \cup (IF ok THEN {"created"} ELSE {"createFailed"})])
    /\ UNCHANGED <<boot, route, user, accessToken, heap, toast, rows, nextId>>

\* -------------------------------------------------- handleSendMessage
\* Hero.tsx:280-304: the guard, the session check, the optimistic user
\* message and the first awaited insert
SendStart(t) ==
    /\ Interactive /\ CanCall
    /\ ~Blank(t) /\ ~isLoading
    /\ isLoading' = TRUE
    /\ IF currentSessionId = NoSid
       THEN /\ Suspend(NewOp("send", "create", t, 0))
            /\ UNCHANGED <<messages, heap, submits>>
       ELSE /\ heap' = AppendHeap(heap, << Obj("user", t) >>)
            /\ messages' = AppendMsgs(heap, messages, << Obj("user", t) >>)
            /\ submits' = submits + 1
            /\ Suspend([NewOp("send", "usave", t, 0) EXCEPT !.ev = {"submitted"}])
    /\ UNCHANGED <<boot, route, user, accessToken, currentSessionId, toast, db, pure>>

\* Hero.tsx:283-294: createNewSession answered; the captured
\* currentSessionId is still null, so the handler returns
SendCreated(o, ok) ==
    /\ o \in ops /\ o.op = "send" /\ o.pc = "create"
    /\ Answer(ok)
    /\ currentSessionId' = CreatedSid(ok)
    /\ messages' = CreatedMessages(ok)
    /\ CreateStore(ok) /\ CreateHist(ok)
    /\ isLoading' = FALSE
    /\ Finish(o, [o EXCEPT !.ev = IF ok THEN {"created"} ELSE {"createFailed"}])
    /\ UNCHANGED <<boot, route, user, accessToken, heap, toast, rows, nextId>>

\* an insert into messages can succeed only while its session row exists
CanInsert(o, ok) == ok => o.sid \in DOMAIN sessions

\* the write a handler issues for the final text of its turn: its text
\* and the session of the row it goes to (the session of the row with the
\* id upd for updateMessageInDatabase, the captured one for an insert)
Issued(o, upd, text) ==
    [text |-> text,
     sid |-> IF upd = NoId THEN o.sid
             ELSE IF \E i \in 1..Len(rows) : rows[i].id = upd
                  THEN rows[CHOOSE i \in 1..Len(rows) : rows[i].id = upd].sid
                  ELSE NoSid]

\* mutation: the failure is swallowed and the turn carries on to the inference call
SendCaught_Forward(o, hp, ms, why) ==
    /\ heap' = hp
    /\ messages' = ms
    /\ Resume(o, [o EXCEPT !.pc = "infer", !.ev = @ \cup {why}])
    /\ UNCHANGED isLoading
\* the catch block (Hero.tsx:348-356, part_002:381-404) entered from o
SendCaught(o, hp, ms, why) ==
    /\ heap' = CaughtHeap(hp, ms, ErrText)
    /\ messages' = CaughtMsgs(hp, ms, ErrText)
    /\ LET upd == UpdateTarget(CaughtHeap(hp, ms, ErrText), o.msgs, ErrText)
       IN  Resume(o, [o EXCEPT !.pc = "esave", !.ev = @ \cup {why}, !.upd = upd,
                               !.wr = Issued(o, upd, ErrText)])
    /\ UNCHANGED isLoading

\* Hero.tsx:304-314: the user row is written; the placeholder is appended
\* and its insert awaited
SendUserSaved(o, ok) ==
    /\ o \in ops /\ o.op = "send" /\ o.pc = "usave"
    /\ Answer(ok)
    /\ CanInsert(o, ok)
    /\ IF ok
       THEN LET hp == BoundHeap(heap, messages, << nextId >>)
            IN  /\ rows' = rows \o NewRows(o.sid, << <<"user", o.text>> >>, nextId)
                /\ nextId' = nextId + 1
                /\ heap' = AppendHeap(hp, << Obj("agent", PH) >>)
                /\ messages' = AppendMsgs(hp, messages, << Obj("agent", PH) >>)
                /\ Resume(o, [o EXCEPT !.pc = "psave", !.ins = @ \cup {nextId},
                                       !.ev = @ \cup {"userSaved"}])
                /\ UNCHANGED isLoading
       ELSE /\ SendCaught(o, heap, messages, "userSaveFailed")
            /\ UNCHANGED <<rows, nextId>>
    /\ UNCHANGED <<boot, route, user, accessToken, currentSessionId, toast, sessions, nextSid,
                   pure, submits>>

\* Hero.tsx:314-327: the placeholder row is written; the inference call
SendPlaceholderSaved(o, ok) ==
    /\ o \in ops /\ o.op = "send" /\ o.pc = "psave"
    /\ Answer(ok)
    /\ CanInsert(o, ok)
    /\ IF ok
       THEN /\ rows' = rows \o NewRows(o.sid, << <<"agent", PH>> >>, nextId)
            /\ nextId' = nextId + 1
            /\ heap' = BoundHeap(heap, messages, << nextId >>)
            /\ Resume(o, [o EXCEPT !.pc = "infer", !.ins = @ \cup {nextId},
                                   !.ev = @ \cup {"placeholderSaved"}])
            /\ UNCHANGED <<messages, isLoading>>
       ELSE /\ SendCaught(o, heap, messages, "placeholderSaveFailed")
            /\ UNCHANGED <<rows, nextId>>
    /\ UNCHANGED <<boot, route, user, accessToken, currentSessionId, toast, sessions, nextSid,
                   pure, submits>>

\* Hero.tsx:329-346, part_002:356-380: the inference call answered
SendInferred(o, ok) ==
    /\ o \in ops /\ o.op = "send" /\ o.pc = "infer"
    /\ Answer(ok)
    /\ IF ok
       THEN /\ heap' = ReplacedHeap(heap, messages, Reply)
            /\ messages' = ReplacedMsgs(heap, messages, Reply)
            /\ Resume(o, [o EXCEPT !.pc = "fsave", !.ev = @ \cup {"inferred"},
                                   !.upd = UpdateTarget(heap, o.msgs, PH),
                                   !.wr = Issued(o, UpdateTarget(heap, o.msgs, PH), Reply)])
            /\ UNCHANGED isLoading
       ELSE SendCaught(o, heap, messages, "inferFailed")
    /\ UNCHANGED <<boot, route, user, accessToken, currentSessionId, toast, db, pure, submits>>

\* the store after the final or the error text of a turn is written:
\* updateMessageInDatabase when a row id was found, else an insert
WrittenRows(o, text) ==
    IF o.upd # NoId THEN UpdateRow(rows, o.upd, text)
    ELSE rows \o NewRows(o.sid, << <<"agent", text>> >>, nextId)
WrittenNextId(o) == IF o.upd # NoId THEN nextId ELSE nextId + 1
WrittenHeap(o) == IF o.upd # NoId THEN heap ELSE BoundHeap(heap, messages, << nextId >>)
WrittenIns(o) == IF o.upd # NoId THEN o.ins ELSE o.ins \cup {nextId}

\* Hero.tsx:346-360, part_002:376-408: the write of the reply answered
SendFinalSaved(o, ok) ==
    /\ o \in ops /\ o.op = "send" /\ o.pc = "fsave"
    /\ Answer(ok)
    /\ CanInsert(o, ok)
    /\ IF ok
       THEN /\ rows' = WrittenRows(o, Reply)
            /\ nextId' = WrittenNextId(o)
            /\ heap' = WrittenHeap(o)
            /\ isLoading' = FALSE
            /\ Finish(o, [o EXCEPT !.ins = WrittenIns(o), !.ev = @ \cup {"finalSaved"}])
            /\ UNCHANGED messages
       ELSE IF o.upd # NoId
            THEN /\ isLoading' = FALSE
                 /\ Finish(o, [o EXCEPT !.ev = @ \cup {"finalUpdateFailed"}])
                 /\ UNCHANGED <<rows, nextId, heap, messages>>
            ELSE /\ SendCaught(o, heap, messages, "finalSaveFailed")
                 /\ UNCHANGED <<rows, nextId>>
    /\ UNCHANGED <<boot, route, user, accessToken, currentSessionId, toast, sessions, nextSid,
                   pure, submits>>

\* Hero.tsx:356-360, part_002:400-408: the write of the error text answered
SendErrorSaved(o, ok) ==
    /\ o \in ops /\ o.op = "send" /\ o.pc = "esave"
    /\ Answer(ok)
    /\ CanInsert(o, ok)
    /\ IF ok
       THEN /\ rows' = WrittenRows(o, ErrText)
            /\ nextId' = WrittenNextId(o)
            /\ heap' = WrittenHeap(o)
            /\ Finish(o, [o EXCEPT !.ins = WrittenIns(o), !.ev = @ \cup {"errorSaved"}])
       ELSE /\ Finish(o, [o EXCEPT !.ev = @ \cup {"errorSaveFailed"}])
            /\ UNCHANGED <<rows, nextId, heap>>
    /\ isLoading' = FALSE
    /\ UNCHANGED <<boot, route, user, accessToken, currentSessionId, messages, toast, sessions,
                   nextSid, pure, submits>>

\* --------------------------------------------------- handleTopicClick
TopicPair == << Obj("user", TopicPrompt), Obj("agent", PH) >>

\* Hero.tsx:250-264: up to the first await
TopicStart ==
    /\ Interactive /\ CanCall /\ ~isLoading
    /\ isLoading' = TRUE
    /\ IF currentSessionId = NoSid
       THEN /\ Suspend(NewOp("topic", "create", TopicPrompt, 0))
            /\ UNCHANGED <<messages, heap, pure>>
       ELSE /\ heap' = AppendHeap(heap, TopicPair)
            /\ messages' = AppendMsgs(heap, messages, TopicPair)
            /\ pure' = FALSE
            /\ Suspend([NewOp("topic", "tsave", TopicPrompt, 0) EXCEPT !.ev = {"submitted"}])
    /\ UNCHANGED <<boot, route, user, accessToken, currentSessionId, toast, db, submits>>

\* Hero.tsx:255-276: createNewSession answered; the pair is appended and
\* saveMessagesToDatabase throws 'No active session' on the captured null id
TopicCreated(o, ok) ==
    /\ o \in ops /\ o.op = "topic" /\ o.pc = "create"
    /\ Answer(ok)
    /\ currentSessionId' = CreatedSid(ok)
    /\ heap' = AppendHeap(heap, TopicPair)
    /\ messages' = AppendMsgs(heap, CreatedMessages(ok), TopicPair)
    /\ CreateStore(ok)
    /\ pure' = FALSE
    /\ submits' = IF ok THEN 0 ELSE submits
    /\ isLoading' = FALSE
    /\ Finish(o, [o EXCEPT !.ev = {"submitted", "noActiveSession"}
                                    \cup (IF ok THEN {"created"} ELSE {"createFailed"})])
    /\ UNCHANGED <<boot, route, user, accessToken, toast, rows, nextId>>

\* Hero.tsx:264-276: the insert of the pair answered
TopicSaved(o, ok) ==
    /\ o \in ops /\ o.op = "topic" /\ o.pc = "tsave"
    /\ Answer(ok)
    /\ CanInsert(o, ok)
    /\ IF ok
       THEN /\ rows' = rows \o NewRows(o.sid, << <<"user", TopicPrompt>>, <<"agent", PH>> >>, nextId)
            /\ nextId' = nextId + 2
            /\ heap' = BoundHeap(heap, messages, << nextId, nextId + 1 >>)
            /\ IF Len(o.msgs) = 0
               THEN /\ Resume(o, [o EXCEPT !.pc = "title", !.ins = {nextId, nextId + 1},
                                           !.ev = @ \cup {"saved"}])
                    /\ UNCHANGED isLoading
               ELSE /\ isLoading' = FALSE
                    /\ Finish(o, [o EXCEPT !.ins = {nextId, nextId + 1}, !.ev = @ \cup {"saved"}])
       ELSE /\ isLoading' = FALSE
            /\ Finish(o, [o EXCEPT !.ev = @ \cup {"saveFailed"}])
            /\ UNCHANGED <<rows, nextId, heap>>
    /\ UNCHANGED <<boot, route, user, accessToken, currentSessionId, messages, toast, sessions,
                   nextSid, pure, submits>>

\* updateSessionTitle (Hero.tsx:237-248) answered inside handleTopicClick
TopicTitled(o, ok) ==
    /\ o \in ops /\ o.op = "topic" /\ o.pc = "title"
    /\ Answer(ok)
    /\ sessions' = IF ok /\ o.sid \in DOMAIN sessions
                   THEN [sessions EXCEPT ![o.sid] = Slice50(TopicTitle)] ELSE sessions
    /\ isLoading' = FALSE
    /\ Finish(o, [o EXCEPT !.ev = @ \cup (IF ok THEN {"titled"} ELSE {"titleFailed"})])
    /\ UNCHANGED <<boot, route, user, accessToken, currentSessionId, messages, heap, toast,
                   rows, nextSid, nextId, pure, submits>>

\* --------------------------------------------------- handleFileUpload
UploadedText == "Uploaded file: a.csv"
UploadingText == "Uploading file: a.csv"
UploadPair == << Obj("user", UploadedText), Obj("agent", FileOkText) >>

\* Hero.tsx:369-398, part_002:411-447: the checks, the session, and the
\* first await.  f is the file of the change event.
UploadStart(f) ==
    /\ Shown /\ CanCall /\ ~isLoading
    /\ IF ~IsCsv(f)
       THEN /\ toast' = "Invalid file type"
            /\ ReturnAtOnce([NewOp("upload", "done", "", f) EXCEPT !.ev = {"invalid"}])
            /\ UNCHANGED <<isLoading, messages, heap, pure>>
       ELSE IF ~accessToken
       THEN /\ toast' = "Authentication Error"
            /\ ReturnAtOnce([NewOp("upload", "done", "", f) EXCEPT !.ev = {"noToken"}])
            /\ UNCHANGED <<isLoading, messages, heap, pure>>
       ELSE IF currentSessionId = NoSid
       THEN /\ isLoading' = TRUE
            /\ Suspend(NewOp("upload", "create", "", f))
            /\ UNCHANGED <<toast, messages, heap, pure>>
       ELSE IF rev = "hero"
       THEN /\ isLoading' = TRUE
            /\ Suspend(NewOp("upload", "upload", "", f))
            /\ UNCHANGED <<toast, messages, heap, pure>>
       ELSE /\ isLoading' = TRUE
            /\ heap' = AppendHeap(heap, << Obj("user", UploadingText) >>)
            /\ messages' = AppendMsgs(heap, messages, << Obj("user", UploadingText) >>)
            /\ pure' = FALSE
            /\ Suspend([NewOp("upload", "usave", "", f) EXCEPT !.ev = {"submitted"}])
            /\ UNCHANGED toast
    /\ UNCHANGED <<boot, route, user, accessToken, currentSessionId, db, submits>>

\* part_002:513-549: the catch block and the finally of handleFileUpload,
\* entered from o with the transcript ms
UploadCaught(o, hp, ms, why) ==
    LET upd == UpdateTarget(ReplacedHeap(hp, ms, FileErrText), o.msgs, FileErrText)
        n == [o EXCEPT !.pc = "esave", !.ev = @ \cup why, !.upd = upd]
    IN  /\ toast' = "Error"
        /\ heap' = ReplacedHeap(hp, ms, FileErrText)
        /\ messages' = ReplacedMsgs(hp, ms, FileErrText)
        /\ IF upd = NoId /\ o.sid = NoSid
           THEN /\ isLoading' = FALSE
                /\ Finish(o, [n EXCEPT !.ev = @ \cup {"noActiveSession"}])
           ELSE /\ isLoading' = TRUE
                /\ Resume(o, n)

\* Hero.tsx:394-410, part_002:435-447: createNewSession answered inside
\* handleFileUpload; the captured currentSessionId stays null
UploadCreated(o, ok) ==
    /\ o \in ops /\ o.op = "upload" /\ o.pc = "create"
    /\ Answer(ok)
    /\ currentSessionId' = CreatedSid(ok)
    /\ CreateStore(ok)
    /\ submits' = IF ok THEN 0 ELSE submits
    /\ IF rev = "hero"
       THEN /\ messages' = CreatedMessages(ok)
            /\ pure' = (ok \/ pure)
            /\ isLoading' = TRUE
            /\ Resume(o, [o EXCEPT !.pc = "upload",
                                   !.ev = IF ok THEN {"created"} ELSE {"createFailed"}])
            /\ UNCHANGED <<heap, toast>>
       ELSE /\ pure' = FALSE
            /\ UploadCaught(o, AppendHeap(heap, << Obj("user", UploadingText) >>),
                            AppendMsgs(heap, CreatedMessages(ok), << Obj("user", UploadingText) >>),
                            {"submitted", "userSaveFailed",
                             IF ok THEN "created" ELSE "createFailed"})
    /\ UNCHANGED <<boot, route, user, accessToken, rows, nextId>>

\* part_002:447-454: the user row is written; the placeholder is appended
UploadUserSaved(o, ok) ==
    /\ o \in ops /\ o.op = "upload" /\ o.pc = "usave"
    /\ Answer(ok)
    /\ CanInsert(o, ok)
    /\ IF ok
       THEN LET hp == BoundHeap(heap, messages, << nextId >>)
            IN  /\ rows' = rows \o NewRows(o.sid, << <<"user", UploadingText>> >>, nextId)
                /\ nextId' = nextId + 1
                /\ heap' = AppendHeap(hp, << Obj("agent", PH) >>)
                /\ messages' = AppendMsgs(hp, messages, << Obj("agent", PH) >>)
                /\ Resume(o, [o EXCEPT !.pc = "psave", !.ins = @ \cup {nextId},
                                       !.ev = @ \cup {"userSaved"}])
                /\ UNCHANGED <<isLoading, toast>>
       ELSE /\ UploadCaught(o, heap, messages, {"userSaveFailed"})
            /\ UNCHANGED <<rows, nextId>>
    /\ UNCHANGED <<boot, route, user, accessToken, currentSessionId, sessions, nextSid,
                   pure, submits>>

\* part_002:454-469: the placeholder row is written; the upload request
UploadPlaceholderSaved(o, ok) ==
    /\ o \in ops /\ o.op = "upload" /\ o.pc = "psave"
    /\ Answer(ok)
    /\ CanInsert(o, ok)
    /\ IF ok
       THEN /\ rows' = rows \o NewRows(o.sid, << <<"agent", PH>> >>, nextId)
            /\ nextId' = nextId + 1
            /\ heap' = BoundHeap(heap, messages, << nextId >>)
            /\ Resume(o, [o EXCEPT !.pc = "upload", !.ins = @ \cup {nextId},
                                   !.ev = @ \cup {"placeholderSaved"}])
            /\ UNCHANGED <<messages, isLoading, toast>>
       ELSE /\ UploadCaught(o, heap, messages, {"placeholderSaveFailed"})
            /\ UNCHANGED <<rows, nextId>>
    /\ UNCHANGED <<boot, route, user, accessToken, currentSessionId, sessions, nextSid,
                   pure, submits>>

\* Hero.tsx:403-454, part_002:459-512: the upload request answered.
\* text is data.reply || 'File processed successfully.' of part_002.
UploadAnswered(o, ok, text) ==
    /\ o \in ops /\ o.op = "upload" /\ o.pc = "upload"
    /\ Answer(ok)
    /\ IF rev = "hero"
       THEN /\ text = FileOkText
            /\ IF ok
               THEN /\ heap' = AppendHeap(heap, UploadPair)
                    /\ messages' = AppendMsgs(heap, messages, UploadPair)
                    /\ pure' = FALSE
                    /\ IF o.sid = NoSid
                       THEN /\ toast' = "Error"
                            /\ isLoading' = FALSE
                            /\ Finish(o, [o EXCEPT !.ev = @ \cup {"uploaded", "submitted",
                                                                  "noActiveSession"}])
                       ELSE /\ toast' = "Success"
                            /\ Resume(o, [o EXCEPT !.pc = "fsave",
                                                   !.ev = @ \cup {"uploaded", "submitted"}])
                            /\ UNCHANGED isLoading
               ELSE /\ toast' = "Error"
                    /\ isLoading' = FALSE
                    /\ Finish(o, [o EXCEPT !.ev = @ \cup {"uploadFailed"}])
                    /\ UNCHANGED <<heap, messages, pure>>
       ELSE /\ text \in {Reply, FileOkText}
            /\ IF ok
               THEN /\ toast' = "Success"
                    /\ heap' = ReplacedHeap(heap, messages, text)
                    /\ messages' = ReplacedMsgs(heap, messages, text)
                    /\ Resume(o, [o EXCEPT !.pc = "fsave", !.text = text,
                                           !.ev = @ \cup {"uploaded"},
                                           !.upd = UpdateTarget(heap, o.msgs, text)])
                    /\ UNCHANGED isLoading
               ELSE /\ text = FileOkText
                    /\ UploadCaught(o, heap, messages, {"uploadFailed"})
            /\ UNCHANGED pure
    /\ UNCHANGED <<boot, route, user, accessToken, currentSessionId, db, submits>>

\* Hero.tsx:440-454: the insert of the pair answered;
\* part_002:505-549: the write of the reply answered
UploadSaved(o, ok) ==
    /\ o \in ops /\ o.op = "upload" /\ o.pc = "fsave"
    /\ Answer(ok)
    /\ CanInsert(o, ok)
    /\ IF rev = "hero"
       THEN /\ rows' = IF ok THEN rows \o NewRows(o.sid, << <<"user", UploadedText>>,
                                                          <<"agent", FileOkText>> >>, nextId)
                       ELSE rows
            /\ nextId' = IF ok THEN nextId + 2 ELSE nextId
            /\ toast' = IF ok THEN toast ELSE "Error"
            /\ isLoading' = FALSE
            /\ Finish(o, [o EXCEPT !.ins = IF ok THEN {nextId, nextId + 1} ELSE {},
                                   !.ev = @ \cup (IF ok THEN {"finalSaved"} ELSE {"finalSaveFailed"})])
            /\ UNCHANGED <<heap, messages>>
       ELSE IF ok
            THEN /\ rows' = WrittenRows(o, o.text)
                 /\ nextId' = WrittenNextId(o)
                 /\ heap' = WrittenHeap(o)
                 /\ isLoading' = FALSE
                 /\ Finish(o, [o EXCEPT !.ins = WrittenIns(o), !.ev = @ \cup {"finalSaved"}])
                 /\ UNCHANGED <<messages, toast>>
            ELSE IF o.upd # NoId
                 THEN /\ isLoading' = FALSE
                      /\ Finish(o, [o EXCEPT !.ev = @ \cup {"finalUpdateFailed"}])
                      /\ UNCHANGED <<rows, nextId, heap, messages, toast>>
                 ELSE /\ UploadCaught(o, heap, messages, {"finalSaveFailed"})
                      /\ UNCHANGED <<rows, nextId>>
    /\ UNCHANGED <<boot, route, user, accessToken, currentSessionId, sessions, nextSid,
                   pure, submits>>

\* part_002:538-549: the write of the error text answered
UploadErrorSaved(o, ok) ==
    /\ o \in ops /\ o.op = "upload" /\ o.pc = "esave"
    /\ Answer(ok)
    /\ CanInsert(o, ok)
    /\ IF ok
       THEN /\ rows' = WrittenRows(o, FileErrText)
            /\ nextId' = WrittenNextId(o)
            /\ heap' = WrittenHeap(o)
            /\ Finish(o, [o EXCEPT !.ins = WrittenIns(o), !.ev = @ \cup {"errorSaved"}])
       ELSE /\ Finish(o, [o EXCEPT !.ev = @ \cup {"errorSaveFailed"}])
            /\ UNCHANGED <<rows, nextId, heap>>
    /\ isLoading' = FALSE
    /\ UNCHANGED <<boot, route, user, accessToken, currentSessionId, messages, toast, sessions,
                   nextSid, pure, submits>>

Next ==
    \/ FetchSessionDone
    \/ CheckAuthDone
    \/ SignedIn
    \/ SignedOut
    \/ \E sid \in DOMAIN sessions : SelectStart(sid)
    \/ \E o \in ops, ok \in BOOLEAN : SelectDone(o, ok)
    \/ ClearStart
    \/ \E o \in ops, ok \in BOOLEAN : ClearDeleted(o, ok)
    \/ \E o \in ops, ok \in BOOLEAN : ClearCreated(o, ok)
    \/ \E t \in Inputs : SendStart(t)
    \/ \E o \in ops, ok \in BOOLEAN : SendCreated(o, ok)
    \/ \E o \in ops, ok \in BOOLEAN : SendUserSaved(o, ok)
    \/ \E o \in ops, ok \in BOOLEAN : SendPlaceholderSaved(o, ok)
    \/ \E o \in ops, ok \in BOOLEAN : SendInferred(o, ok)
    \/ \E o \in ops, ok \in BOOLEAN : SendFinalSaved(o, ok)
    \/ \E o \in ops, ok \in BOOLEAN : SendErrorSaved(o, ok)
    \/ TopicStart
    \/ \E o \in ops, ok \in BOOLEAN : TopicCreated(o, ok)
    \/ \E o \in ops, ok \in BOOLEAN : TopicSaved(o, ok)
    \/ \E o \in ops, ok \in BOOLEAN : TopicTitled(o, ok)
    \/ \E f \in DOMAIN Files : UploadStart(f)
    \/ \E o \in ops, ok \in BOOLEAN : UploadCreated(o, ok)
    \/ \E o \in ops, ok \in BOOLEAN : UploadUserSaved(o, ok)
    \/ \E o \in ops, ok \in BOOLEAN : UploadPlaceholderSaved(o, ok)
    \/ \E o \in ops, ok \in BOOLEAN, text \in {Reply, FileOkText} : UploadAnswered(o, ok, text)
    \/ \E o \in ops, ok \in BOOLEAN : UploadSaved(o, ok)
    \/ \E o \in ops, ok \in BOOLEAN : UploadErrorSaved(o, ok)

Spec == Init /\ [][Next]_vars

\* ============================================================ dashboard
chat == <<boot, ui, db, ops, hist, faults, side>>

\* the chat page and the sidebar play no part in the dashboard's runs
ChatIdle ==
    /\ rev = "hero" /\ hasSession = FALSE /\ authPc = "done" /\ tokPc = "done"
    /\ route = "chat" /\ user = NoActor /\ accessToken = FALSE
    /\ currentSessionId = NoSid /\ messages = <<>> /\ heap = <<>>
    /\ isLoading = FALSE /\ toast = ""
    /\ sessions = << >> /\ rows = <<>> /\ nextSid = 1 /\ nextId = 1
    /\ ops = {} /\ last = NoOp /\ calls = 0 /\ selects = 0 /\ overlapped = FALSE
    /\ pure = TRUE /\ submits = 0 /\ faults = 0
    /\ SideIdle /\ sessionFiles = {} /\ chatFiles = {}

RECURSIVE SeqsUpTo(_, _)
SeqsUpTo(S, n) ==
    IF n = 0 THEN { <<>> }
    ELSE SeqsUpTo(S, n - 1) \cup { Append(h, x) : h \in {g \in SeqsUpTo(S, n - 1) : Len(g) = n - 1}, x \in S }

\* the histories processChartData is tried on, and those a fetch answers with
Histories == SeqsUpTo(Snapshots, MaxHistory)
FetchedHistories == {h \in Histories : Len(h) <= 1}

\* ---- processChartData on inputs of every shape
ChartInit ==
    /\ ChatIdle
    /\ drev \in {"dash", "a005", "c005"}
    /\ latestData \in Snapshots \cup {NullSnap}
    /\ historyData \in Histories
    /\ selectedShipmentId \in ShipmentIds \cup {NoShipment}
    /\ chartData = NoChart("unrendered")
    /\ isOpen = FALSE /\ loading = FALSE /\ error = NoError /\ availableShipments = <<>>
    /\ effectDue = FALSE /\ fetches = {} /\ fetched = 0 /\ latestCalls = 0
    /\ historyCalls = 0 /\ succeeded = 0 /\ picks = 0 /\ toggles = 0

\* Dashboard.tsx:249-253: the component renders
RenderChart ==
    /\ chartData.kind = "unrendered"
    /\ chartData' = processChartData(latestData, historyData, selectedShipmentId)
    /\ UNCHANGED <<chat, drev, isOpen, latestData, historyData, loading, error,
                   selectedShipmentId, availableShipments, effectDue, fetches, fetched,
                   latestCalls, historyCalls, succeeded, picks, toggles>>

ChartNext == RenderChart
SpecChart == ChartInit /\ [][ChartNext]_vars

\* ---- the component
\* what a render leaves: chartData (Dashboard.tsx:249-253), and the
\* 'Shipment Details' block (Dashboard.tsx:292-322), which calls
\* latestData.results.find once the sheet is open and a shipment is selected
Rendered(latest, history, id, open) ==
    IF open /\ id # NoShipment /\ latest.shape = "single" THEN NoChart("throw")
    ELSE processChartData(latest, history, id)

Mounted == chartData.kind # "throw"
\* mutation: the selected shipment is a dependency of the effect as well
EffectDue_OnSelect(open0, open1, id0, id1) == open0 # open1 \/ id0 # id1
\* useEffect(..., [isOpen]): the effect is scheduled when a dependency changed
EffectDue(open0, open1, id0, id1) == open0 # open1

DashInit ==
    /\ ChatIdle
    /\ drev \in {"dash", "a005"}
    /\ DashIdle

\* onOpenChange / the close button: setIsOpen
OpenSheet ==
    /\ Mounted /\ ~effectDue /\ ~isOpen /\ toggles < MaxToggles
    /\ isOpen' = TRUE
    /\ toggles' = toggles + 1
    /\ effectDue' = EffectDue(isOpen, TRUE, selectedShipmentId, selectedShipmentId)
    /\ chartData' = Rendered(latestData, historyData, selectedShipmentId, TRUE)
    /\ UNCHANGED <<chat, drev, latestData, historyData, loading, error, selectedShipmentId,
                   availableShipments, fetches, fetched, latestCalls, historyCalls,
                   succeeded, picks>>

CloseSheet ==
    /\ Mounted /\ ~effectDue /\ isOpen /\ toggles < MaxToggles
    /\ isOpen' = FALSE
    /\ toggles' = toggles + 1
    /\ effectDue' = EffectDue(isOpen, FALSE, selectedShipmentId, selectedShipmentId)
    /\ chartData' = Rendered(latestData, historyData, selectedShipmentId, FALSE)
    /\ UNCHANGED <<chat, drev, latestData, historyData, loading, error, selectedShipmentId,
                   availableShipments, fetches, fetched, latestCalls, historyCalls,
                   succeeded, picks>>

\* Dashboard.tsx:164-168 and 141-145: the effect runs after the render; it
\* calls fetchData, which runs up to its first await
RunEffect ==
    /\ Mounted /\ effectDue
    /\ effectDue' = FALSE
    /\ IF isOpen /\ latestData = NullSnap
       THEN /\ loading' = TRUE
            /\ error' = NoError
            /\ fetches' = fetches \cup {[k |-> fetched + 1, pc |-> "latest"]}
            /\ fetched' = fetched + 1
            /\ latestCalls' = latestCalls + 1
       ELSE UNCHANGED <<loading, error, fetches, fetched, latestCalls>>
    /\ UNCHANGED <<chat, drev, isOpen, latestData, historyData, selectedShipmentId,
                   availableShipments, chartData, historyCalls, succeeded, picks, toggles>>

\* shipmentIds of Dashboard.tsx:149
IdsOf(rs) == [i \in 1..Len(rs) |-> rs[i].shipment_id]
FirstId(rs) == IF rs = <<>> THEN NoShipment ELSE rs[1].shipment_id

\* the catch and finally blocks of fetchData (Dashboard.tsx:156-161)
FetchCaught(o) ==
    /\ error' = FailedToLoad
    /\ loading' = FALSE
    /\ fetches' = fetches \ {o}
    /\ UNCHANGED <<selectedShipmentId, availableShipments, historyCalls>>

\* Dashboard.tsx:145-154: getLatestAnalytics answered with the snapshot, or
\* threw (store error, no row for .single(), no signed-in user)
LatestArrived(o, ok, snap) ==
    /\ Mounted /\ ~effectDue /\ o \in fetches /\ o.pc = "latest"
    /\ ok \/ snap = NullSnap
    /\ IF ~ok
       THEN FetchCaught(o) /\ UNCHANGED latestData
       ELSE /\ latestData' = snap
            /\ IF snap.shape = "single"
               \* latest.results.map is not a function
               THEN FetchCaught(o)
               ELSE /\ IF snap.shape = "list"
                       THEN /\ availableShipments' = IdsOf(snap.results)
                            /\ selectedShipmentId' = FirstId(snap.results)
                       ELSE UNCHANGED <<availableShipments, selectedShipmentId>>
                    /\ fetches' = (fetches \ {o}) \cup {[o EXCEPT !.pc = "history"]}
                    /\ historyCalls' = historyCalls + 1
                    /\ UNCHANGED <<loading, error>>
    /\ chartData' = Rendered(latestData', historyData, selectedShipmentId', isOpen)
    /\ UNCHANGED <<chat, drev, isOpen, historyData, effectDue, fetched, latestCalls,
                   succeeded, picks, toggles>>

\* Dashboard.tsx:154-161: getAnalyticsHistory answered, or threw
HistoryArrived(o, ok, h) ==
    /\ Mounted /\ ~effectDue /\ o \in fetches /\ o.pc = "history"
    /\ ok \/ h = <<>>
    /\ IF ok
       THEN /\ historyData' = h
            /\ succeeded' = succeeded + 1
            /\ loading' = FALSE
            /\ fetches' = fetches \ {o}
            /\ UNCHANGED <<error, selectedShipmentId, availableShipments, historyCalls>>
       ELSE FetchCaught(o) /\ UNCHANGED <<historyData, succeeded>>
    /\ chartData' = Rendered(latestData, historyData', selectedShipmentId, isOpen)
    /\ UNCHANGED <<chat, drev, isOpen, latestData, effectDue, fetched, latestCalls,
                   picks, toggles>>

\* ShipmentSelector onChange (Dashboard.tsx:96-111, 285-289): setSelectedShipmentId
SelectShipment(id) ==
    /\ Mounted /\ ~effectDue /\ isOpen /\ picks < MaxPicks
    /\ \E i \in 1..Len(availableShipments) : availableShipments[i] = id
    /\ id # selectedShipmentId
    /\ selectedShipmentId' = id
    /\ picks' = picks + 1
    /\ effectDue' = EffectDue(isOpen, isOpen, selectedShipmentId, id)
    /\ chartData' = Rendered(latestData, historyData, id, isOpen)
    /\ UNCHANGED <<chat, drev, isOpen, latestData, historyData, loading, error,
                   availableShipments, fetches, fetched, latestCalls, historyCalls,
                   succeeded, toggles>>

DashNext ==
    \/ OpenSheet
    \/ CloseSheet
    \/ RunEffect
    \/ \E o \in fetches, ok \in BOOLEAN, snap \in Snapshots \cup {NullSnap} : LatestArrived(o, ok, snap)
    \/ \E o \in fetches, ok \in BOOLEAN, h \in FetchedHistories : HistoryArrived(o, ok, h)
    \/ \E id \in ShipmentIds : SelectShipment(id)

SpecDash == DashInit /\ [][DashNext]_vars

\* ============================================================== sidebar
\* The chat page with its history sheet.  The page is shown to an
\* authenticated actor; session 1 has one attachment, stored by an earlier
\* visit: the row of session_files and the object of the bucket.
OldFile == "u/1/old.csv"
NewFile == "u/new.csv"
FileRow(sid, path) == [sid |-> sid, path |-> path]
PathsOf(rs, sid) == {f.path : f \in {g \in rs : g.sid = sid}}

\* the page outside the sidebar and the attachment stores
page == <<boot, ui, db, ops, hist, faults, dash>>

SideInit ==
    /\ rev = "hero"
    /\ hasSession = TRUE /\ authPc = "done" /\ tokPc = "done"
    /\ route = "chat" /\ user = Actor /\ accessToken = TRUE
    /\ currentSessionId = NoSid /\ messages = <<>> /\ heap = <<>>
    /\ isLoading = FALSE /\ toast = ""
    /\ sessions = (1 :> "hi") @@ (2 :> NewChat)
    /\ rows = << [id |-> 1, sid |-> 1, type |-> "user", content |-> "hi"],
                 [id |-> 2, sid |-> 1, type |-> "agent", content |-> Reply] >>
    /\ nextSid = 3 /\ nextId = 3
    /\ ops = {} /\ last = NoOp /\ calls = 0 /\ selects = 0 /\ overlapped = FALSE
    /\ pure = TRUE /\ submits = 0 /\ faults = 0
    /\ drev = "dash" /\ DashIdle
    /\ SideIdle
    /\ sessionFiles = {FileRow(1, OldFile)}
    /\ chatFiles = {OldFile}

\* the awaited call of a sidebar resumption succeeded or failed
SideAnswer(ok) == IF ok THEN faults' = faults
                  ELSE faults < MaxFaults /\ faults' = faults + 1

NewSideOp(op, pc, sid) == [k |-> sideCalls + 1, op |-> op, pc |-> pc, sid |-> sid, left |-> {}]

\* the effect on [isOpen, currentSessionId] (Sidebar.tsx:42-46) has to run
SideEffectDue == sideSeen # <<sidebarOpen, currentSessionId>>

\* the list is on screen: the sheet is open and 'Loading...' is not shown
\* (Sidebar.tsx:192-196)
ListShown == sidebarOpen /\ ~sidebarLoading
Listed == {e.id : e \in sidebarSessions}

\* onOpenChange of the sheet: setIsOpen
SidebarToggle ==
    /\ Shown /\ ~SideEffectDue /\ sideToggles < MaxSideToggles
    /\ sidebarOpen' = ~sidebarOpen
    /\ sideToggles' = sideToggles + 1
    /\ UNCHANGED <<page, sidebarLoading, sidebarSessions, sideSeen, sessionFiles, chatFiles,
                   sideOps, sideCalls, deletes, attaches>>

\* Sidebar.tsx:42-50: the effect runs; when the sheet is open fetchSessions
\* starts and suspends at its select
SidebarEffect ==
    /\ Shown /\ SideEffectDue
    /\ sideSeen' = <<sidebarOpen, currentSessionId>>
    /\ IF sidebarOpen
       THEN /\ sidebarLoading' = TRUE
            /\ sideOps' = sideOps \cup {NewSideOp("fetch", "select", NoSid)}
            /\ sideCalls' = sideCalls + 1
       ELSE UNCHANGED <<sidebarLoading, sideOps, sideCalls>>
    /\ UNCHANGED <<page, sidebarOpen, sidebarSessions, sessionFiles, chatFiles, deletes,
                   sideToggles, attaches>>

\* the sessions with their files as the select of fetchSessions returns them
FetchedSessions == {[id |-> sid, files |-> PathsOf(sessionFiles, sid)] : sid \in DOMAIN sessions}

\* Sidebar.tsx:51-80: the select of fetchSessions answered
FetchSessionsDone(o, ok) ==
    /\ o \in sideOps /\ o.op = "fetch"
    /\ SideAnswer(ok)
    /\ sidebarSessions' = IF ok THEN FetchedSessions ELSE sidebarSessions
    /\ sidebarLoading' = FALSE
    /\ sideOps' = sideOps \ {o}
    /\ UNCHANGED <<boot, ui, db, ops, hist, dash, sidebarOpen, sideSeen, sessionFiles, chatFiles,
                   sideCalls, deletes, sideToggles, attaches>>

\* onClick of a session of the list (Sidebar.tsx:200): onSessionSelect
SidebarSelect(sid) ==
    /\ ListShown /\ ~SideEffectDue /\ sid \in Listed
    /\ selects < MaxSideSelects
    /\ SelectStart(sid)

\* Sidebar.tsx:83-92: the delete button of a listed session (the confirm is
\* accepted); the handler suspends at the select on session_files
DeleteStart(sid) ==
    /\ Shown /\ ListShown /\ ~SideEffectDue /\ sid \in Listed
    /\ deletes < MaxDeletes
    /\ sidebarLoading' = TRUE
    /\ sideOps' = sideOps \cup {NewSideOp("delete", "files", sid)}
    /\ sideCalls' = sideCalls + 1
    /\ deletes' = deletes + 1
    /\ UNCHANGED <<page, sidebarOpen, sidebarSessions, sideSeen, sessionFiles, chatFiles,
                   sideToggles, attaches>>

\* Sidebar.tsx:88-94: the file paths arrived; a failed select leaves data
\* null and the loop is skipped (its error is not read)
DeleteFilesRead(o, ok) ==
    /\ o \in sideOps /\ o.op = "delete" /\ o.pc = "files"
    /\ SideAnswer(ok)
    /\ LET paths == IF ok THEN PathsOf(sessionFiles, o.sid) ELSE {}
       IN  sideOps' = (sideOps \ {o}) \cup
                         {[o EXCEPT !.pc = IF paths = {} THEN "row" ELSE "blobs", !.left = paths]}
    /\ UNCHANGED <<boot, ui, db, ops, hist, dash, sidebarOpen, sidebarLoading, sidebarSessions,
                   sideSeen, sessionFiles, chatFiles, sideCalls, deletes, sideToggles, attaches>>

\* the bucket after storage.remove([path]) answered
RemovedFiles(fs, path, ok) == IF ok THEN fs \ {path} ELSE fs

\* Sidebar.tsx:94-100: one remove of the loop answered; its error is not read
DeleteBlobRemoved(o, path, ok) ==
    /\ o \in sideOps /\ o.op = "delete" /\ o.pc = "blobs" /\ path \in o.left
    /\ SideAnswer(ok)
    /\ chatFiles' = RemovedFiles(chatFiles, path, ok)
    /\ sideOps' = (sideOps \ {o}) \cup
                     {[o EXCEPT !.left = @ \ {path},
                                !.pc = IF o.left = {path} THEN "row" ELSE "blobs"]}
    /\ UNCHANGED <<boot, ui, db, ops, hist, dash, sidebarOpen, sidebarLoading, sidebarSessions,
                   sideSeen, sessionFiles, sideCalls, deletes, sideToggles, attaches>>

\* Hero.tsx:487-490: the onDeleteSession callback of the page
DeletedSid(cur, sid) == NoSid
DeletedMessages(ms, cur, sid) == <<>>

\* Sidebar.tsx:102-115: the delete on chat_sessions answered.  The rows of
\* messages and session_files go with the session (tables.sql:16, 24:
\* on delete cascade); then setSessions and onDeleteSession.
DeleteRowDone(o, ok) ==
    /\ o \in sideOps /\ o.op = "delete" /\ o.pc = "row"
    /\ SideAnswer(ok)
    /\ IF ok
       THEN /\ sessions' = [s \in DOMAIN sessions \ {o.sid} |-> sessions[s]]
            /\ rows' = DeleteRows(rows, o.sid)
            /\ sessionFiles' = {f \in sessionFiles : f.sid # o.sid}
            /\ sidebarSessions' = {e \in sidebarSessions : e.id # o.sid}
            /\ currentSessionId' = DeletedSid(currentSessionId, o.sid)
            /\ messages' = DeletedMessages(messages, currentSessionId, o.sid)
       ELSE UNCHANGED <<sessions, rows, sessionFiles, sidebarSessions, currentSessionId, messages>>
    /\ sidebarLoading' = FALSE
    /\ sideOps' = sideOps \ {o}
    /\ UNCHANGED <<boot, route, user, accessToken, heap, isLoading, toast, nextSid, nextId,
                   ops, hist, dash, sidebarOpen, sideSeen, chatFiles, sideCalls, deletes,
                   sideToggles, attaches>>

\* the upload service stores an attachment of the current session: the
\* object, then the row
AttachmentStored ==
    /\ Shown /\ currentSessionId # NoSid /\ currentSessionId \in DOMAIN sessions
    /\ attaches < MaxAttaches
    /\ chatFiles' = chatFiles \cup {NewFile}
    /\ sessionFiles' = sessionFiles \cup {FileRow(currentSessionId, NewFile)}
    /\ attaches' = attaches + 1
    /\ UNCHANGED <<page, sidebarOpen, sidebarLoading, sidebarSessions, sideSeen, sideOps,
                   sideCalls, deletes, sideToggles>>

SideNext ==
    \/ SidebarToggle
    \/ SidebarEffect
    \/ \E o \in sideOps, ok \in BOOLEAN : FetchSessionsDone(o, ok)
    \/ \E sid \in Listed : SidebarSelect(sid)
    \/ \E o \in ops, ok \in BOOLEAN : SelectDone(o, ok)
    \/ \E sid \in Listed : DeleteStart(sid)
    \/ \E o \in sideOps, ok \in BOOLEAN : DeleteFilesRead(o, ok)
    \/ \E o \in sideOps, ok \in BOOLEAN : \E path \in o.left : DeleteBlobRemoved(o, path, ok)
    \/ \E o \in sideOps, ok \in BOOLEAN : DeleteRowDone(o, ok)
    \/ AttachmentStored

SpecSide == SideInit /\ [][SideNext]_vars

\* ================================================================ claims
TypeAt(i) == heap[messages[i]].type
TextAt(i) == heap[messages[i]].text
Users == {i \in 1..Len(messages) : TypeAt(i) = "user"}
Agents == {i \in 1..Len(messages) : TypeAt(i) = "agent"}
LastAgentText == IF Agents = {} THEN ""
                 ELSE TextAt(CHOOSE i \in Agents : \A j \in Agents : j <= i)
\* the handlers have run one at a time so far: the contract of an operation
\* is stated for a call that no other handler overlaps
Alone == ~overlapped
RowIds(type) == {rows[i].id : i \in {j \in 1..Len(rows) : rows[j].type = type}}

\* C1: after sendMessage calls only, each run to completion, the transcript
\* holds as many user messages as calls passed the submit step, and every
\* user message is followed by exactly one agent message.
C1_PairedTranscript ==
    (ops = {} /\ pure /\ Alone) =>
        /\ Cardinality(Users) = submits
        /\ \A i \in Users : /\ i + 1 \in Agents
                            /\ i + 2 \notin Agents

\* C2: a turn whose inference call failed ends with the fixed error text as
\* the last agent message, and a write of exactly that text was issued for
\* the session of the turn.
C2_ErrorPersisted ==
    (last.op = "send" /\ "inferFailed" \in last.ev /\ Alone) =>
        /\ LastAgentText = ErrText
        /\ last.wr = [text |-> ErrText, sid |-> last.sid]
        /\ "errorSaved" \in last.ev \/ "errorSaveFailed" \in last.ev
C2_Witness ==
    /\ last.op = "send" /\ "inferFailed" \in last.ev /\ Alone
    /\ "errorSaved" \in last.ev

C4_FailedClearKeepsTranscript ==
    (last.op = "clear" /\ "deleteFailed" \in last.ev /\ Alone) =>
        /\ View(heap, messages) = View(heap, last.msgs)
        /\ currentSessionId = last.sid
        /\ last.ev = {"deleteFailed"}

\* C5: selectSession(id) right after a successful selectSession(id), with
\* nothing else running, leaves the current session and the transcript (text,
\* role and row id of every message) as the first call left them.
C5_SelectIdempotent ==
    (last.op = "select" /\ "again" \in last.ev /\ Alone) =>
        /\ currentSessionId = last.sid
        /\ currentSessionId = last.tgt
        /\ [i \in 1..Len(messages) |-> heap[messages[i]]]
             = [i \in 1..Len(last.msgs) |-> heap[last.msgs[i]]]
C5_Witness ==
    /\ last.op = "select" /\ {"again", "ok"} \subseteq last.ev /\ Alone
    /\ Len(messages) > 0

\* C6: a file input change with a name that does not end in '.csv' starts no
\* request (no handler is left suspended, the store is untouched), shows the
\* validation toast, and leaves transcript, session and loading flag alone.
NonCsvUpload(o) == o.op = "upload" /\ ~EndsWith(Files[o.tgt], DotCsv)
C6_NonCsvRejected ==
    [][ (calls' = calls + 1 /\ (NonCsvUpload(last') \/ \E o \in ops' \ ops : NonCsvUpload(o))) =>
          /\ ops' = ops
          /\ toast' = "Invalid file type"
          /\ UNCHANGED <<messages, currentSessionId, isLoading, db>> ]_vars
C6_Witness == last.op = "upload" /\ "invalid" \in last.ev /\ last.tgt = TxtFile

\* C7: while a turn is outstanding no further sendMessage passes the guard:
\* at no time are two turns of sendMessage between their submit step and the
\* resolution of their placeholder.
Outstanding(o) == o.op = "send" /\ o.pc \in {"usave", "psave", "infer"}
C7_SingleTurn == Cardinality({o \in ops : Outstanding(o)}) <= 1

\* C8: calls of createSession that overlap collapse to one insert: at no time
\* are two inserts into chat_sessions in flight.
C8_SingleCreate == Cardinality({o \in ops : o.pc = "create"}) <= 1

\* C9: a turn that resolved left exactly one user row and one agent row, and
\* none of its rows still carries the placeholder text.
C9_UpdatedInPlace ==
    (last.op = "send" /\ {"inferred", "finalSaved"} \subseteq last.ev /\ Alone) =>
        /\ Cardinality(last.ins \cap RowIds("user")) = 1
        /\ Cardinality(last.ins \cap RowIds("agent")) = 1
        /\ \A i \in 1..Len(rows) : rows[i].id \in last.ins => rows[i].content # PH

\* C10: once a handler that submitted a turn (sendMessage or sendTopic) has
\* returned, no agent message of the transcript still shows the placeholder.
C10_TurnTerminates ==
    (last.op \in {"send", "topic"} /\ "submitted" \in last.ev /\ Alone) =>
        \A i \in Agents : TextAt(i) # PH

\* ------------------------------------------------- chat, order and frames
Turns == {o \in ops \cup {last} : o.op = "send"}
Failures == {"userSaveFailed", "placeholderSaveFailed", "inferFailed", "finalSaveFailed"}
RowsBy(o, type) == {i \in 1..Len(rows) : rows[i].id \in o.ins /\ rows[i].type = type}

\* C17: in every turn of sendMessage the placeholder is appended and written
\* only after the user insert succeeded, the inference call is made only
\* after the placeholder insert succeeded, the final text is written only
\* after the inference call answered, and after a failed step the turn only
\* writes the error text.
C17_StepsInOrder ==
    \A o \in Turns :
        /\ (o.pc = "psave" \/ "placeholderSaved" \in o.ev) => "userSaved" \in o.ev
        /\ (o.pc = "infer" \/ {"inferred", "inferFailed"} \cap o.ev # {})
              => "placeholderSaved" \in o.ev
        /\ (o.pc = "fsave" \/ {"finalSaved", "finalSaveFailed", "finalUpdateFailed"} \cap o.ev # {})
              => "inferred" \in o.ev
        /\ o.ev \cap Failures # {} => /\ o.pc \in {"esave", "done"}
                                      /\ "finalSaved" \notin o.ev
                                      /\ Cardinality(o.ev \cap Failures) = 1
        /\ "userSaved" \notin o.ev => RowsBy(o, "user") = {}
        /\ "placeholderSaved" \notin o.ev =>
              \A i \in RowsBy(o, "agent") : "errorSaved" \in o.ev /\ rows[i].content = ErrText
        /\ (o.pc = "usave" /\ Alone) =>
              /\ Len(messages) = Len(o.msgs) + 1
              /\ heap[messages[Len(messages)]].type = "user"
C17_Witness ==
    /\ last.op = "send" /\ Alone
    /\ {"userSaved", "placeholderSaved", "inferred", "finalSaved"} \subseteq last.ev

\* C18: whenever no handler is in flight and a session is current, the rows
\* of that session, in creation order, give by (type, content) exactly the
\* transcript.
C18_StoreMatchesTranscript ==
    (ops = {} /\ Shown /\ currentSessionId # NoSid) =>
        View(heap, messages) =
            [i \in 1..Len(RowsOf(rows, currentSessionId)) |->
               [type |-> RowsOf(rows, currentSessionId)[i].type,
                text |-> RowsOf(rows, currentSessionId)[i].content]]

\* C19: a step of a turn whose session is no longer the current one changes
\* neither the transcript on the page nor the rows of the current session.
C19_StaleTurnDiscarded ==
    [][ \A o \in ops :
          (/\ o.op = "send" /\ o.pc \in {"usave", "psave", "infer", "fsave", "esave"}
           /\ o \notin ops' /\ route' = "chat"
           /\ o.sid # currentSessionId /\ currentSessionId # NoSid) =>
             /\ View(heap', messages') = View(heap, messages)
             /\ RowsOf(rows', currentSessionId) = RowsOf(rows, currentSessionId) ]_vars

\* C20: when the insert of createNewSession fails, the current session id
\* and the transcript stay as they were; when it succeeds, the new id is
\* current and the transcript is empty after the same step.  The transcript
\* is compared for the callers that do nothing more to it once
\* createNewSession has returned (handleSendMessage, handleClearChat); the
\* session id is compared for every caller.
C20_CreateAllOrNothing ==
    [][ \A o \in ops :
          (o.pc = "create" /\ o \notin ops' /\ route' = "chat") =>
             IF nextSid' # nextSid
             THEN /\ currentSessionId' = nextSid
                  /\ sessions' # sessions
                  /\ o.op \in {"send", "clear"} => messages' = <<>>
             ELSE /\ currentSessionId' = currentSessionId
                  /\ sessions' = sessions
                  /\ o.op \in {"send", "clear"} => messages' = messages ]_vars
C20_Witness ==
    /\ last.op \in {"send", "clear"} /\ "createFailed" \in last.ev
    /\ currentSessionId # NoSid

Stored(sid) == [i \in 1..Len(RowsOf(rows, sid)) |->
                  [type |-> RowsOf(rows, sid)[i].type, text |-> RowsOf(rows, sid)[i].content]]

\* C21: the step in which handleSessionSelect gets its answer either makes
\* the selected id current and the transcript the stored messages of that id,
\* both at once, or (the fetch failed) changes neither; no step of the
\* handler changes one of the two alone.
C21_SelectTogether ==
    [][ /\ \A o \in ops :
             (o.op = "select" /\ o \notin ops' /\ route' = "chat") =>
                \/ /\ currentSessionId' = o.tgt
                   /\ View(heap', messages') = Stored(o.tgt)
                   /\ "ok" \in last'.ev
                \/ /\ currentSessionId' = currentSessionId
                   /\ messages' = messages
                   /\ "failed" \in last'.ev
        /\ (\E o \in ops' \ ops : o.op = "select") =>
              UNCHANGED <<currentSessionId, messages>> ]_vars
C21_Witness ==
    /\ last.op = "select" /\ "failed" \in last.ev
    /\ currentSessionId # NoSid /\ currentSessionId # last.tgt
    /\ Len(messages) > 0

\* the turn o wrote the first rows of its session
FirstTurn(o) == /\ o.sid # NoSid
                /\ \A i \in 1..Len(rows) : rows[i].sid = o.sid => rows[i].id \in o.ins
TitleOf(o) == IF o.op = "topic" THEN Slice50(TopicTitle) ELSE Slice50(o.text)
TitleIssued(o) == {"titled", "titleFailed"} \cap o.ev # {}

\* C22: a turn of sendMessage or sendTopic that has run alone and has written
\* its user message issues a title update exactly when it is the first turn
\* of its session, and an update that succeeded leaves the session titled
\* with the first 50 characters of the user text or of the topic title.
C22_FirstTurnTitled ==
    (/\ last.op \in {"send", "topic"} /\ last.pc = "done" /\ Alone
     /\ {"userSaved", "saved"} \cap last.ev # {}) =>
        /\ TitleIssued(last) <=> FirstTurn(last)
        /\ ("titled" \in last.ev /\ last.sid \in DOMAIN sessions)
              => sessions[last.sid] = TitleOf(last)

\* C23: an upload of a .csv file that started without a current session and
\* whose createNewSession succeeded does not end on 'No active session', and
\* once the upload request has succeeded its messages are rows of a session.
C23_UploadUnderNewSession ==
    (last.op = "upload" /\ last.pc = "done" /\ "created" \in last.ev) =>
        /\ "noActiveSession" \notin last.ev
        /\ "uploaded" \in last.ev =>
              (last.ins # {} /\ \A i \in 1..Len(rows) :
                                   rows[i].id \in last.ins => rows[i].sid = currentSessionId)

\* C24: once checkAuth has returned an actor, and before any handler has been
\* called, a session is current or its insert is in flight; a checkAuth that
\* fails or returns no actor issues no session insert, leaves no session
\* current and sends the user to the login page.
C24_ActiveOnceAuthenticated ==
    /\ []((route = "chat" /\ authPc = "done" /\ user = Actor /\ calls = 0 /\ selects = 0) =>
            (currentSessionId # NoSid \/ \E o \in ops : o.pc = "create"))
    /\ [][ (authPc = "getUser" /\ authPc' = "done" /\ user' = NoActor) =>
              (route' = "login" /\ currentSessionId' = NoSid /\ UNCHANGED db) ]_vars

\* the durable row a transcript entry with an id points at is a row of its
\* own type
OwnRow(m) == \E i \in 1..Len(rows) : rows[i].id = m.id /\ rows[i].type = m.type
Pending == {i \in 1..Len(messages) : heap[messages[i]].id = NoId}

\* C26: in the revision that binds ids (part_002), every transcript entry
\* that carries an id carries the id of a row of its own (a row of its
\* type), also when an earlier entry is still without an id, and no two
\* entries carry the same id.
C26_IdBoundToOwnEntry ==
    rev = "p002" =>
        /\ \A i \in 1..Len(messages) : heap[messages[i]].id # NoId => OwnRow(heap[messages[i]])
        /\ \A i, j \in 1..Len(messages) \ Pending :
              heap[messages[i]].id = heap[messages[j]].id => i = j

LastTwo(q) == SubSeq(q, Len(q) - 1, Len(q))

\* C27: an upload that passed the checks of handleFileUpload and ran alone
\* has, when it returns, added to the transcript exactly one user message
\* and one agent message (the reply text when the upload request succeeded,
\* the fixed error text when a step failed), and these two are the last two
\* rows of the session.
C27_UploadPair ==
    (/\ last.op = "upload" /\ last.pc = "done" /\ Alone
     /\ last.ev \cap {"invalid", "noToken"} = {}) =>
        /\ Len(messages) = Len(last.msgs) + 2
        /\ LastTwo(View(heap, messages))[1].type = "user"
        /\ LastTwo(View(heap, messages))[2].type = "agent"
        /\ LastTwo(View(heap, messages))[2].text =
              (IF "finalSaved" \in last.ev THEN (IF rev = "hero" THEN FileOkText ELSE last.text)
               ELSE FileErrText)
        /\ Len(Stored(last.sid)) >= 2
        /\ LastTwo(Stored(last.sid)) = LastTwo(View(heap, messages))

\* the inference call of the turn o is answered in this step
InferenceAnswered(o) ==
    /\ o \in ops /\ o.op = "send" /\ o.pc = "infer"
    /\ \E n \in ops' : n.k = o.k /\ n.pc \in {"fsave", "esave"}
Changed == {i \in 1..Len(messages) :
              i > Len(messages') \/ View(heap', messages')[i] # View(heap, messages)[i]}

\* C28: the step in which the inference call of a turn that ran alone is
\* answered, with a reply or with a failure, keeps the length of the
\* transcript and changes the text of exactly one entry, the placeholder of
\* that turn (the last placeholder of the transcript); every other entry
\* keeps its type and text.
C28_OnlyOwnPlaceholder ==
    [][ \A o \in ops : (InferenceAnswered(o) /\ Alone) =>
          /\ Len(messages') = Len(messages)
          /\ \E i \in PHAt(heap, messages) :
                /\ \A j \in PHAt(heap, messages) : j <= i
                /\ Changed = {i} ]_vars

\* ------------------------------------------------------------- sidebar
\* C25: every attachment the list of the sidebar shows has its object in the
\* bucket, in every state reached through stored attachments and session
\* deletes: an attachment is shown whole or not at all.
C25_AttachmentWhole ==
    ListShown => \A e \in sidebarSessions : e.files \subseteq chatFiles

DeleteAnswered(o) == o \in sideOps /\ o.op = "delete" /\ o.pc = "row" /\ o \notin sideOps'

\* C29: the step in which the delete of a session is answered leaves the
\* current session id and the transcript unchanged when the deleted session
\* is not the current one, resets both when it is, and changes neither the
\* list of the sidebar nor the current session when the delete failed.
C29_DeleteFrame ==
    [][ \A o \in sideOps : DeleteAnswered(o) =>
          IF faults' # faults
          THEN UNCHANGED <<sidebarSessions, currentSessionId, messages>>
          ELSE IF o.sid # currentSessionId
          THEN UNCHANGED <<currentSessionId, messages>>
          ELSE currentSessionId' = NoSid /\ messages' = <<>> ]_vars

\* ------------------------------------------------------------ dashboard
HasShipment(e, id) == \E i \in 1..Len(e.results) : e.results[i].shipment_id = id
ScoreIn(e, id) == e.results[CHOOSE i \in 1..Len(e.results) : e.results[i].shipment_id = id].score
SelectedResult == latestData.results[CHOOSE i \in 1..Len(latestData.results) :
                                       latestData.results[i].shipment_id = selectedShipmentId]

\* C11: the trend series of a chart has one point for each snapshot of the
\* history that contains the selected shipment, in the history's order, with
\* the day and the overall score of that snapshot, and no other point.
C11_TrendPoints ==
    (chartData.kind = "chart" /\ drev # "c005") =>
        LET with == SelectSeq(historyData, LAMBDA e : HasShipment(e, selectedShipmentId))
        IN  chartData.historyData =
              [i \in 1..Len(with) |-> [timestamp |-> with[i].ts[1],
                                       score |-> ScoreIn(with[i], selectedShipmentId)]]

\* C12: the distribution view (pieData) of a chart has one entry, in the
\* order of the keys, for each key of the selected shipment's metrics whose
\* value is a number and which is neither distance nor carbon_emissions, and
\* no other entry.
C12_Distribution ==
    chartData.kind = "chart" =>
        LET keys == SelectSeq(SelectedResult.metrics,
                              LAMBDA e : e.num /\ e.key # <<"distance">>
                                               /\ e.key # <<"carbon", "emissions">>)
        IN  /\ Len(chartData.pieData) = Len(keys)
            /\ \A i \in 1..Len(keys) : chartData.pieData[i].name = TitleCase(keys[i].key)

\* C13: picking another shipment changes neither the stored snapshot nor the
\* stored history nor the number of calls of getLatestAnalytics and
\* getAnalyticsHistory, the charts of the render are those of the picked id
\* over the stored data, and no fetchData is ever started but by opening
\* the sheet.
C13_SelectIsLocal ==
    /\ [][ picks' = picks + 1 =>
             /\ UNCHANGED <<latestData, historyData, latestCalls, historyCalls, fetched, fetches>>
             /\ chartData' = Rendered(latestData, historyData, selectedShipmentId', isOpen) ]_vars
    /\ [](fetched <= (toggles + 1) \div 2)
C13_Witness ==
    /\ picks > 0 /\ succeeded > 0 /\ selectedShipmentId = "S2"
    /\ chartData.kind = "chart" /\ chartData.name = "S2"

\* C14: processChartData returns null, and does not throw, when there is no
\* latest snapshot, when the latest snapshot has no shipment results, when no
\* shipment is selected, and when the selected shipment is not among the
\* results of the latest snapshot.
C14_NoData ==
    (/\ chartData.kind # "unrendered"
     /\ \/ latestData.shape = "null"
        \/ latestData.results = <<>>
        \/ selectedShipmentId = NoShipment
        \/ ~HasShipment(latestData, selectedShipmentId)) =>
        chartData.kind = "null"

\* C15: of the displays loading, error and empty at most one is shown; the
\* empty display is shown only after some fetchData has succeeded; and while
\* the error of a failed fetch is held, neither empty nor charts are shown.
ShowsLoading == isOpen /\ loading
ShowsError == isOpen /\ ~loading /\ error # NoError
ShowsEmpty == isOpen /\ ~loading /\ error = NoError /\ chartData.kind = "null"
ShowsCharts == isOpen /\ ~loading /\ error = NoError /\ chartData.kind = "chart"
C15_DisplayStates ==
    /\ ~(ShowsLoading /\ ShowsError) /\ ~(ShowsLoading /\ ShowsEmpty) /\ ~(ShowsError /\ ShowsEmpty)
    /\ ShowsEmpty => succeeded > 0
    /\ error # NoError => ~ShowsEmpty /\ ~ShowsCharts

\* C16: once a fetch has set a latest snapshot whose results is one result
\* outside a list, and no fetch is running, there is no error, that shipment
\* is the selected one, and the charts are those of the snapshot with the
\* result in a list.
C16_SingleAsList ==
    (latestData.shape = "single" /\ fetches = {} /\ ~effectDue /\ Mounted) =>
        /\ error = NoError
        /\ selectedShipmentId = latestData.results[1].shipment_id
        /\ chartData = processChartData([latestData EXCEPT !.shape = "list"], historyData,
                                        latestData.results[1].shipment_id)

\* the effect that follows a re-opening of the sheet runs in this step
ReopenedInError == effectDue /\ ~effectDue' /\ isOpen /\ error # NoError

\* C30: when the sheet is opened again while the dashboard holds an error,
\* whichever of the two fetches failed, the effect issues a new fetchData,
\* which clears the error; and fetchData is only ever issued by the effect
\* that follows an opening of the sheet.
C30_ErrorRecoverable ==
    [][ /\ ReopenedInError => (fetched' = fetched + 1 /\ error' = NoError)
        /\ fetched' # fetched => (effectDue /\ isOpen) ]_vars

=============================================================================
